---- MODULE Spec2Model ----
(***************************************************************************)
(* A model of ModernGroceryList (src/Grocery.js): the React state of the   *)
(* component, its three effects, its event handlers, and the two           *)
(* localStorage entries it reads at startup and rewrites after changes.    *)
(*                                                                         *)
(* Strings that the code inspects character by character (the item name,   *)
(* the text of the quantity field, the decimal id, the stored timestamp)   *)
(* are sequences of one-character strings, so that trim, parseInt,         *)
(* toString and the Date <-> string conversions are computed, not assumed. *)
(***************************************************************************)
EXTENDS Integers, Sequences, FiniteSets

\* ---------------------------------------------------------------- bounds
MaxItems == 2        \* the collection holds at most this many items
MaxClock == 1        \* the clock (Date.now) advances at most this many ms
MaxQuantity == 1     \* largest newQuantity updateQuantity is called with
Epoch == 999         \* clock value (ms) at which the model starts

\* ------------------------------------------------------- strings, numbers
Whitespace == {" "}
Digits == <<"0", "1", "2", "3", "4", "5", "6", "7", "8", "9">>
DigitChars == {Digits[i] : i \in 1..Len(Digits)}
DigitVal(c) == (CHOOSE i \in 1..Len(Digits) : Digits[i] = c) - 1

RECURSIVE TrimStart(_)
TrimStart(s) ==
    IF s # <<>> /\ Head(s) \in Whitespace THEN TrimStart(Tail(s)) ELSE s

RECURSIVE TrimEnd(_)
TrimEnd(s) ==
    IF s # <<>> /\ s[Len(s)] \in Whitespace
    THEN TrimEnd(SubSeq(s, 1, Len(s) - 1))
    ELSE s

\* String.prototype.trim
Trim(s) == TrimEnd(TrimStart(s))

\* value of the longest prefix of decimal digits of s, continuing from acc
RECURSIVE ParseDigits(_, _)
ParseDigits(s, acc) ==
    IF s # <<>> /\ Head(s) \in DigitChars
    THEN ParseDigits(Tail(s), acc * 10 + DigitVal(Head(s)))
    ELSE acc

\* parseInt(text): leading whitespace, an optional sign, then digits; NaN
\* when no digit follows.  The result is [nan, val]; val is unused when nan.
ParseInt(text) ==
    LET s == TrimStart(text)
        signed == s # <<>> /\ Head(s) \in {"-", "+"}
        body == IF signed THEN Tail(s) ELSE s
    IN  IF body = <<>> \/ Head(body) \notin DigitChars
        THEN [nan |-> TRUE, val |-> 0]
        ELSE [nan |-> FALSE,
              val |-> IF signed /\ Head(s) = "-"
                      THEN 0 - ParseDigits(body, 0)
                      ELSE ParseDigits(body, 0)]

\* parseInt(e.target.value) || 1 : NaN and 0 are falsy
QuantityOfText(text) ==
    LET p == ParseInt(text) IN IF p.nan \/ p.val = 0 THEN 1 ELSE p.val

\* Number.prototype.toString of a non-negative integer
RECURSIVE NumToString(_)
NumToString(n) ==
    IF n < 10
    THEN <<Digits[n + 1]>>
    ELSE NumToString(n \div 10) \o <<Digits[(n % 10) + 1]>>

\* ------------------------------------------------------------ timestamps
\* A Date is its time value in ms.  Date.prototype.toJSON gives the ISO
\* string, which carries the time to the millisecond: here the seconds, a
\* point, three digits of milliseconds and "Z".
Pad3(n) ==
    <<Digits[(n \div 100) + 1], Digits[((n \div 10) % 10) + 1], Digits[(n % 10) + 1]>>

ToISOString(t) == NumToString(t \div 1000) \o <<".">> \o Pad3(t % 1000) \o <<"Z">>

\* NewDate reading the seconds only
NewDateSeconds(str) ==
    LET dot == CHOOSE i \in 1..Len(str) : str[i] = "."
    IN  ParseDigits(SubSeq(str, 1, dot - 1), 0) * 1000

\* new Date(isoString)
NewDate(str) ==
    LET dot == CHOOSE i \in 1..Len(str) : str[i] = "."
    IN  ParseDigits(SubSeq(str, 1, dot - 1), 0) * 1000
          + ParseDigits(SubSeq(str, dot + 1, Len(str)), 0)

\* ------------------------------------------------------------- the inputs
\* e.target.value of the name field
NameInputs == { <<>>, <<" ">>, <<" ", "a", " ">> }
\* e.target.value of the quantity field (a number input: "" or a number)
QuantityTexts == { <<>>, <<"0">>, <<"-", "1">>, <<"1", ".", "5">> }
\* the quantity texts followed when the selects are in use too
FormQuantityTexts == { <<>>, <<"2">> }
CategoryIds ==
    <<"produce", "dairy", "meat", "bakery", "pantry", "frozen", "household", "other">>
CategoryInputs == {"produce", "dairy"}
UnitInputs == {"pc", "kg"}
PriorityInputs == {"medium", "high"}
Clock == Epoch..(Epoch + MaxClock)
\* ids a handler can be called with: every id the clock can have produced
IdInputs == {NumToString(t) : t \in Clock}
\* newQuantity of updateQuantity: item.quantity - 1 or + 1 of a shown item
NewQuantityInputs == (0 - 1)..MaxQuantity

\* e.target.value of the name field, followed when the view is in use
ViewNameInputs == { <<"b">>, <<"A", "b">> }
\* e.target.value of the search field
SearchTerms == { <<>>, <<"a">>, <<"B">>, <<"a", "B">> }
\* value of the category filter: "all" or the id of a category
FilterInputs == {"all", "produce", "dairy"}
\* the view mode buttons
ViewModeInputs == {"category", "all"}

\* ------------------------------------------------------------ localStorage
\* An entry is absent (getItem gives null) or holds a text.  The text of the
\* items entry is JSON: an array of item records (what the program writes),
\* or, written by something else, the empty string, JSON that is no array,
\* or text that is no JSON at all.
Null == [kind |-> "null"]
EmptyText == [kind |-> "empty"]
NotJSON == [kind |-> "notjson"]
JSONObject == [kind |-> "object"]
Text(s) == [kind |-> "text", text |-> s]

\* JSON.stringify of one item: addedAt through Date.prototype.toJSON
ItemToJSON(item) == [item EXCEPT !.addedAt = ToISOString(item.addedAt)]

\* JSON.stringify(items)
Stringify(its) ==
    [kind |-> "array", elems |-> [i \in 1..Len(its) |-> ItemToJSON(its[i])]]

\* { ...item, addedAt: new Date(item.addedAt) }
Rehydrate(rec) == [rec EXCEPT !.addedAt = NewDate(rec.addedAt)]

\* a value is truthy unless null or the empty string
Truthy(entry) == entry.kind \notin {"null", "empty"}

\* the items half of the load effect: [threw, set, items]
LoadItems(savedItems) ==
    IF ~Truthy(savedItems)
    THEN [threw |-> FALSE, set |-> FALSE, items |-> <<>>]
    ELSE IF savedItems.kind \in {"notjson", "object"}
    THEN [threw |-> TRUE, set |-> FALSE, items |-> <<>>]
    ELSE [threw |-> FALSE, set |-> TRUE,
          items |-> [i \in 1..Len(savedItems.elems) |-> Rehydrate(savedItems.elems[i])]]

ThemeText(dark) == IF dark THEN "dark" ELSE "light"

\* the save-items effect
SaveItems(ls, its) == [ls EXCEPT !.modernGroceryList = Stringify(its)]

\* the save-theme effect
SaveTheme(ls, dark) == [ls EXCEPT !.groceryListTheme = Text(ThemeText(dark))]

\* ------------------------------------------------------------------ state
VARIABLES
    items,              \* useState<GroceryItem[]>
    newItem,            \* name field of the add form
    selectedCategory,
    selectedPriority,
    quantity,           \* quantity field of the add form
    unit,
    isDark,
    searchTerm,         \* text of the search field
    filterCategory,     \* "all" or a category id
    viewMode,           \* "category" or "all"
    localStorage,       \* [ok, modernGroceryList, groceryListTheme]
    pending,            \* state updates queued by the load effect
    pc,                 \* "mounted", "loaded", "ready", "crashed"
    now,                \* the clock read by Date.now() and new Date()
    lastOp,             \* history: the last step that was no edit of the form
    beforeStop          \* history: the collection when the process stopped

vars == <<items, newItem, selectedCategory, selectedPriority, quantity, unit,
          isDark, searchTerm, filterCategory, viewMode, localStorage, pending, pc,
          now, lastOp, beforeStop>>

form == <<newItem, selectedCategory, selectedPriority, quantity, unit>>

view == <<searchTerm, filterCategory, viewMode>>

NoPending == [setItems |-> FALSE, items |-> <<>>, setIsDark |-> FALSE, isDark |-> FALSE]
Unknown == [known |-> FALSE, items |-> <<>>]

\* the useState initial values
InitialState ==
    /\ items = <<>>
    /\ newItem = <<>>
    /\ selectedCategory = "produce"
    /\ selectedPriority = "medium"
    /\ quantity = 1
    /\ unit = "pc"
    /\ isDark = FALSE
    /\ searchTerm = <<>>
    /\ filterCategory = "all"
    /\ viewMode = "category"

\* what the program can find in storage the first time it starts
InitialStorage ==
    { [ok |-> TRUE, modernGroceryList |-> e, groceryListTheme |-> Null] :
        e \in {Null, EmptyText, NotJSON, JSONObject} }
      \cup { [ok |-> FALSE, modernGroceryList |-> Null, groceryListTheme |-> Null] }

Init ==
    /\ InitialState
    /\ localStorage \in InitialStorage
    /\ pending = NoPending
    /\ pc = "mounted"
    /\ now = Epoch
    /\ lastOp = "mount"
    /\ beforeStop = Unknown

\* ------------------------------------------------------ the state updaters
\* NewItem taking the first category whatever the select holds
NewItemFirstCategory(name, category, qty, u, priority, clock) ==
    [id |-> NumToString(clock),
     name |-> Trim(name),
     category |-> "produce",
     quantity |-> qty,
     unit |-> u,
     completed |-> FALSE,
     priority |-> priority,
     addedAt |-> clock]

\* the item addItem builds (lines 84-93)
NewItem(name, category, qty, u, priority, clock) ==
    [id |-> NumToString(clock),
     name |-> Trim(name),
     category |-> category,
     quantity |-> qty,
     unit |-> u,
     completed |-> FALSE,
     priority |-> priority,
     addedAt |-> clock]

\* prev => [...prev, item]
AddItemUpdate(prev, item) == Append(prev, item)

\* ToggleCompleteUpdate marking the item completed instead of flipping it
ToggleCompleteSets(prev, id) ==
    [i \in 1..Len(prev) |->
        IF prev[i].id = id THEN [prev[i] EXCEPT !.completed = TRUE]
        ELSE prev[i]]

\* prev.map(item => item.id === id ? { ...item, completed: !item.completed } : item)
ToggleCompleteUpdate(prev, id) ==
    [i \in 1..Len(prev) |->
        IF prev[i].id = id THEN [prev[i] EXCEPT !.completed = ~prev[i].completed]
        ELSE prev[i]]

\* prev.filter(item => item.id !== id)
DeleteItemUpdate(prev, id) == SelectSeq(prev, LAMBDA item : item.id # id)

\* prev.map(item => item.id === id ? { ...item, quantity: newQuantity } : item)
UpdateQuantityUpdate(prev, id, newQuantity) ==
    [i \in 1..Len(prev) |->
        IF prev[i].id = id THEN [prev[i] EXCEPT !.quantity = newQuantity]
        ELSE prev[i]]

\* ClearCompletedUpdate with the test inverted
ClearCompletedInverted(prev) == SelectSeq(prev, LAMBDA item : item.completed)

\* prev.filter(item => !item.completed)
ClearCompletedUpdate(prev) == SelectSeq(prev, LAMBDA item : ~item.completed)

\* items.filter(item => item.completed).length
CompletedCount(its) == Len(SelectSeq(its, LAMBDA item : item.completed))

\* ------------------------------------------------------- the projected view
UpperCase == <<"A", "B", "C", "D", "E", "F", "G", "H", "I", "J", "K", "L", "M",
               "N", "O", "P", "Q", "R", "S", "T", "U", "V", "W", "X", "Y", "Z">>
LowerCase == <<"a", "b", "c", "d", "e", "f", "g", "h", "i", "j", "k", "l", "m",
               "n", "o", "p", "q", "r", "s", "t", "u", "v", "w", "x", "y", "z">>

\* String.prototype.toLowerCase
ToLowerCase(s) ==
    [k \in 1..Len(s) |->
        IF \E i \in 1..Len(UpperCase) : UpperCase[i] = s[k]
        THEN LowerCase[CHOOSE i \in 1..Len(UpperCase) : UpperCase[i] = s[k]]
        ELSE s[k]]

\* String.prototype.includes
Includes(s, t) ==
    \E i \in 1..(Len(s) - Len(t) + 1) : SubSeq(s, i, i + Len(t) - 1) = t

\* filteredItems lowering the search term but not the name
filteredItemsNameAsIs ==
    SelectSeq(items, LAMBDA item :
        LET matchesSearch == Includes(item.name, ToLowerCase(searchTerm))
            matchesCategory == filterCategory = "all" \/ item.category = filterCategory
        IN  matchesSearch /\ matchesCategory)

\* the filter stage (lines 122-126)
filteredItems ==
    SelectSeq(items, LAMBDA item :
        LET matchesSearch == Includes(ToLowerCase(item.name), ToLowerCase(searchTerm))
            matchesCategory == filterCategory = "all" \/ item.category = filterCategory
        IN  matchesSearch /\ matchesCategory)

\* category: null of the single group of the other view modes
NoCategory == "null"

\* what the reduce adds for one category: the key and { category, items }
CategoryGroup(c) ==
    [key |-> c, category |-> c,
     items |-> SelectSeq(filteredItems, LAMBDA item : item.category = c)]

\* groupedItems adding a group when the first item of its category comes up
groupedItemsByAppearance ==
    IF viewMode = "category"
    THEN LET n == Len(filteredItems)
             firsts == SelectSeq([i \in 1..n |-> i], LAMBDA i :
                          \A j \in 1..(i - 1) :
                              filteredItems[j].category # filteredItems[i].category)
         IN  [k \in 1..Len(firsts) |-> CategoryGroup(filteredItems[firsts[k]].category)]
    ELSE << [key |-> "all", category |-> NoCategory, items |-> filteredItems] >>

\* the group stage (lines 128-136): the entries of the object in the order
\* of their insertion, which is the order Object.entries gives them in
groupedItems ==
    IF viewMode = "category"
    THEN SelectSeq([i \in 1..Len(CategoryIds) |-> CategoryGroup(CategoryIds[i])],
                   LAMBDA g : Len(g.items) > 0)
    ELSE << [key |-> "all", category |-> NoCategory, items |-> filteredItems] >>

\* completedCount counting among the shown items
completedCountShown == CompletedCount(filteredItems)

\* the aggregate stage (lines 138-140)
completedCount == CompletedCount(items)

totalCount == Len(items)

\* (completedCount / totalCount) * 100, kept as the fraction num / den
completionPercentage ==
    IF totalCount > 0
    THEN [num |-> completedCount * 100, den |-> totalCount]
    ELSE [num |-> 0, den |-> 1]

\* ---------------------------------------------------------------- startup
\* The effects of the first render, in the order of their declaration.  The
\* render they belong to saw items = [] and isDark = false.  Touching
\* localStorage throws when storage is unavailable; JSON.parse throws on
\* text that is no JSON, and .map is no function of a value that is no
\* array.  An effect that throws leaves the component unmounted (there is no
\* error boundary); whether the effects after it still run depends on the
\* React version, so both outcomes are possible.
MountEffects ==
    /\ pc = "mounted"
    /\ LET load == LoadItems(localStorage.modernGroceryList)
           savedTheme == localStorage.groceryListTheme
           saved == SaveTheme(SaveItems(localStorage, items), isDark)
       IN  IF ~localStorage.ok
           THEN /\ pc' = "crashed"
                /\ UNCHANGED <<localStorage, pending>>
           ELSE IF load.threw
           THEN /\ pc' = "crashed"
                /\ \E rest \in BOOLEAN :
                      localStorage' = IF rest THEN saved ELSE localStorage
                /\ UNCHANGED pending
           ELSE /\ pc' = "loaded"
                /\ localStorage' = saved
                /\ pending' = [setItems |-> load.set,
                               items |-> load.items,
                               setIsDark |-> Truthy(savedTheme),
                               isDark |-> Truthy(savedTheme) /\ savedTheme.text = "dark"]
    /\ lastOp' = "MountEffects"
    /\ UNCHANGED <<items, form, isDark, now, beforeStop, view>>

\* The render of the updates the load effect queued, and the effects whose
\* dependency changed: setItems always hands over a new array, setIsDark
\* changes the state only when the value differs.
Rerender ==
    /\ pc = "loaded"
    /\ pc' = "ready"
    /\ items' = IF pending.setItems THEN pending.items ELSE items
    /\ isDark' = IF pending.setIsDark THEN pending.isDark ELSE isDark
    /\ localStorage' =
          LET a == IF pending.setItems
                   THEN SaveItems(localStorage, items') ELSE localStorage
          IN  IF isDark' # isDark THEN SaveTheme(a, isDark') ELSE a
    /\ pending' = NoPending
    /\ beforeStop' = Unknown
    /\ lastOp' = "Rerender"
    /\ UNCHANGED <<form, now, view>>

\* The process stops (the page is closed or reloaded) and starts again: the
\* React state is gone, the storage stays.
Restart ==
    /\ items' = <<>>
    /\ newItem' = <<>>
    /\ selectedCategory' = "produce"
    /\ selectedPriority' = "medium"
    /\ quantity' = 1
    /\ unit' = "pc"
    /\ isDark' = FALSE
    /\ searchTerm' = <<>>
    /\ filterCategory' = "all"
    /\ viewMode' = "category"
    /\ pending' = NoPending
    /\ pc' = "mounted"
    /\ beforeStop' = IF pc = "ready" THEN [known |-> TRUE, items |-> items] ELSE Unknown
    /\ lastOp' = "Restart"
    /\ UNCHANGED <<localStorage, now>>

\* the clock advances
Tick ==
    /\ now < Epoch + MaxClock
    /\ now' = now + 1
    /\ UNCHANGED <<items, form, isDark, localStorage, pending, pc,
                   lastOp, beforeStop, view>>

\* ------------------------------------------------------------ the handlers
\* SetItems without the save-items effect
SetItemsUnsaved(its) ==
    /\ items' = its
    /\ UNCHANGED localStorage

\* a change of items, and the save-items effect of the render it causes
SetItems(its) ==
    /\ items' = its
    /\ localStorage' = SaveItems(localStorage, its)

SetNewItem(value) ==
    /\ pc = "ready"
    /\ newItem' = value
    /\ UNCHANGED <<lastOp, items, selectedCategory, selectedPriority, quantity, unit, isDark,
                   localStorage, pending, pc, now, beforeStop, view>>

SetSelectedCategory(value) ==
    /\ pc = "ready"
    /\ selectedCategory' = value
    /\ UNCHANGED <<lastOp, items, newItem, selectedPriority, quantity, unit, isDark,
                   localStorage, pending, pc, now, beforeStop, view>>

SetQuantity(text) ==
    /\ pc = "ready"
    /\ quantity' = QuantityOfText(text)
    /\ UNCHANGED <<lastOp, items, newItem, selectedCategory, selectedPriority, unit, isDark,
                   localStorage, pending, pc, now, beforeStop, view>>

SetUnit(value) ==
    /\ pc = "ready"
    /\ unit' = value
    /\ UNCHANGED <<lastOp, items, newItem, selectedCategory, selectedPriority, quantity, isDark,
                   localStorage, pending, pc, now, beforeStop, view>>

SetSelectedPriority(value) ==
    /\ pc = "ready"
    /\ selectedPriority' = value
    /\ UNCHANGED <<lastOp, items, newItem, selectedCategory, quantity, unit, isDark,
                   localStorage, pending, pc, now, beforeStop, view>>

\* AddItem without the early return on an empty trimmed name
AddItemUnguarded ==
    /\ pc = "ready"
    /\ Len(items) < MaxItems
    /\ items' = Append(items,
          [id |-> NumToString(now), name |-> Trim(newItem),
           category |-> selectedCategory, quantity |-> quantity, unit |-> unit,
           completed |-> FALSE, priority |-> selectedPriority, addedAt |-> now])
    /\ localStorage' = [localStorage EXCEPT !.modernGroceryList = Stringify(items')]
    /\ newItem' = <<>>
    /\ quantity' = 1
    /\ lastOp' = IF Trim(newItem) = <<>> THEN "AddItem:ignored" ELSE "AddItem"
    /\ UNCHANGED <<selectedCategory, selectedPriority, unit, isDark, pending, pc, now,
                   beforeStop, view>>

SetSearchTerm(value) ==
    /\ pc = "ready"
    /\ searchTerm' = value
    /\ UNCHANGED <<items, form, isDark, filterCategory, viewMode, localStorage, pending,
                   pc, now, lastOp, beforeStop>>

SetFilterCategory(value) ==
    /\ pc = "ready"
    /\ filterCategory' = value
    /\ UNCHANGED <<items, form, isDark, searchTerm, viewMode, localStorage, pending,
                   pc, now, lastOp, beforeStop>>

SetViewMode(mode) ==
    /\ pc = "ready"
    /\ viewMode' = mode
    /\ UNCHANGED <<items, form, isDark, searchTerm, filterCategory, localStorage, pending,
                   pc, now, lastOp, beforeStop>>

\* Enter in the name field, or the Add button (disabled while the trimmed
\* name is empty; Enter is not).  setShowAddForm(false) only hides the form:
\* which parts of the page are visible is not part of the model, the form's
\* handlers can run at any time.
AddItem ==
    /\ pc = "ready"
    /\ IF Trim(newItem) = <<>>
       THEN /\ lastOp' = "AddItem:ignored"
            /\ UNCHANGED <<items, newItem, quantity, localStorage>>
       ELSE /\ Len(items) < MaxItems
            /\ SetItems(AddItemUpdate(items,
                   NewItem(newItem, selectedCategory, quantity, unit,
                           selectedPriority, now)))
            /\ newItem' = <<>>
            /\ quantity' = 1
            /\ lastOp' = "AddItem"
    /\ UNCHANGED <<selectedCategory, selectedPriority, unit, isDark, pending, pc, now,
                   beforeStop, view>>

ToggleComplete(id) ==
    /\ pc = "ready"
    /\ lastOp' = "ToggleComplete"
    /\ SetItems(ToggleCompleteUpdate(items, id))
    /\ UNCHANGED <<form, isDark, pending, pc, now, beforeStop, view>>

DeleteItem(id) ==
    /\ pc = "ready"
    /\ lastOp' = "DeleteItem"
    /\ SetItems(DeleteItemUpdate(items, id))
    /\ UNCHANGED <<form, isDark, pending, pc, now, beforeStop, view>>

\* UpdateQuantity clamping a newQuantity below 1 to 1 instead of returning
UpdateQuantityClamped(id, newQuantity) ==
    /\ pc = "ready"
    /\ lastOp' = IF newQuantity < 1 THEN "UpdateQuantity:ignored" ELSE "UpdateQuantity"
    /\ LET n == IF newQuantity < 1 THEN 1 ELSE newQuantity
       IN  /\ items' = [i \in 1..Len(items) |->
                          IF items[i].id = id THEN [items[i] EXCEPT !.quantity = n]
                          ELSE items[i]]
           /\ localStorage' = [localStorage EXCEPT !.modernGroceryList = Stringify(items')]
    /\ UNCHANGED <<form, isDark, pending, pc, now, beforeStop, view>>

UpdateQuantity(id, newQuantity) ==
    /\ pc = "ready"
    /\ lastOp' = IF newQuantity < 1 THEN "UpdateQuantity:ignored" ELSE "UpdateQuantity"
    /\ IF newQuantity < 1
       THEN UNCHANGED <<items, localStorage>>
       ELSE SetItems(UpdateQuantityUpdate(items, id, newQuantity))
    /\ UNCHANGED <<form, isDark, pending, pc, now, beforeStop, view>>

\* the button is disabled while nothing is completed
ClearCompleted ==
    /\ pc = "ready"
    /\ lastOp' = "ClearCompleted"
    /\ CompletedCount(items) # 0
    /\ SetItems(ClearCompletedUpdate(items))
    /\ UNCHANGED <<form, isDark, pending, pc, now, beforeStop, view>>

\* the theme button, and the save-theme effect of the render it causes
ToggleTheme ==
    /\ pc = "ready"
    /\ lastOp' = "ToggleTheme"
    /\ isDark' = ~isDark
    /\ localStorage' = SaveTheme(localStorage, isDark')
    /\ UNCHANGED <<items, form, pending, pc, now, beforeStop, view>>

\* ---------------------------------------------------------- specifications
\* The item store, its persistence and the process life cycle; the selects
\* of the add form stay at their initial values.
Next ==
    \/ MountEffects
    \/ Rerender
    \/ Restart
    \/ Tick
    \/ \E value \in NameInputs : SetNewItem(value)
    \/ \E text \in QuantityTexts : SetQuantity(text)
    \/ AddItem
    \/ \E id \in IdInputs : ToggleComplete(id)
    \/ \E id \in IdInputs : DeleteItem(id)
    \/ \E id \in IdInputs, newQuantity \in NewQuantityInputs : UpdateQuantity(id, newQuantity)
    \/ ClearCompleted
    \/ ToggleTheme

Spec == Init /\ [][Next]_vars

\* The add form with every field in use, one run of the process, the clock
\* standing still.
NextForm ==
    \/ MountEffects
    \/ Rerender
    \/ \E value \in NameInputs : SetNewItem(value)
    \/ \E value \in CategoryInputs : SetSelectedCategory(value)
    \/ \E text \in FormQuantityTexts : SetQuantity(text)
    \/ \E value \in UnitInputs : SetUnit(value)
    \/ \E value \in PriorityInputs : SetSelectedPriority(value)
    \/ AddItem

SpecForm == Init /\ [][NextForm]_vars

\* The projected view: names of both cases, two categories, completion,
\* search, filter and view mode, over restarts, the clock standing still.
NextView ==
    \/ MountEffects
    \/ Rerender
    \/ Restart
    \/ \E value \in ViewNameInputs : SetNewItem(value)
    \/ \E value \in CategoryInputs : SetSelectedCategory(value)
    \/ AddItem
    \/ \E id \in IdInputs : ToggleComplete(id)
    \/ \E value \in SearchTerms : SetSearchTerm(value)
    \/ \E value \in FilterInputs : SetFilterCategory(value)
    \/ \E mode \in ViewModeInputs : SetViewMode(mode)

SpecView == Init /\ [][NextView]_vars

\* ----------------------------------------------------------------- claims
ItemFields ==
    {"id", "name", "category", "quantity", "unit", "completed", "priority", "addedAt"}

\* b is a with at most the field f changed
SameExcept(a, b, f) == \A g \in ItemFields \ {f} : b[g] = a[g]

\* every character of s is whitespace (the empty string too)
IsBlank(s) == \A k \in 1..Len(s) : s[k] \in Whitespace

\* out holds exactly the elements of in at the positions in keep, in order
IsSubSeqAt(out, in, keep) ==
    \E f \in [1..Len(out) -> 1..Len(in)] :
        /\ \A k \in 1..Len(out) : out[k] = in[f[k]]
        /\ \A k \in 1..Len(out), l \in 1..Len(out) : k < l => f[k] < f[l]
        /\ {f[k] : k \in 1..Len(out)} = keep

Uncompleted(its) == {i \in 1..Len(its) : ~its[i].completed}

\* C1: every item of the collection has a quantity of at least 1
C1_QuantityAtLeastOne == \A i \in 1..Len(items) : items[i].quantity >= 1

\* C2: no two items of the collection have the same id
C2_IdsUnique ==
    \A i \in 1..Len(items), j \in 1..Len(items) : i # j => items[i].id # items[j].id

\* C3: whenever a step leaves the program ready for the next user action,
\* the stored items entry is the serialization of the whole collection; and a
\* theme change writes the theme entry and leaves the items entry as it was
C3_StoredAfterEveryMutation ==
    [][ /\ pc' = "ready" =>
              localStorage'.modernGroceryList = Stringify(items')
        /\ ToggleTheme =>
              /\ localStorage'.modernGroceryList = localStorage.modernGroceryList
              /\ localStorage'.groceryListTheme = Text(IF isDark THEN "light" ELSE "dark")
      ]_vars

C3_Witness ==
    /\ pc = "ready"
    /\ lastOp = "ToggleComplete"
    /\ Len(items) = 2
    /\ items[1].completed /\ ~items[2].completed
    /\ isDark
    /\ localStorage.groceryListTheme = Text("dark")
    /\ Len(localStorage.modernGroceryList.elems) = 2
    /\ localStorage.modernGroceryList.elems[1].completed

\* C4: when the process stopped with its startup done and starts again, the
\* last startup step yields the collection it held when it stopped (same
\* items, same order, same fields, equal addedAt), and the stored items entry
\* holds that collection again
C4_RestartRoundTrip ==
    [][ (pc = "loaded" /\ pc' = "ready" /\ beforeStop.known) =>
            /\ items' = beforeStop.items
            /\ localStorage'.modernGroceryList = Stringify(beforeStop.items)
      ]_vars

C4_Witness ==
    /\ pc = "ready"
    /\ lastOp = "Rerender"
    /\ Len(items) = 2
    /\ items[1].addedAt = Epoch
    /\ items[2].addedAt = Epoch + 1
    /\ items[1].completed
    /\ items[2].quantity < 1
    /\ localStorage.modernGroceryList = Stringify(items)

\* C5: no crashed state is reachable, whatever the storage holds at startup
C5_NeverCrashed == pc # "crashed"

\* C6: an add with a name that is not blank and a quantity >= 1 appends
\* exactly one item: the items before keep their place and value, the new one
\* is not completed and has the trimmed name and the form's category,
\* quantity, unit and priority
C6_AddAppendsOne ==
    [][ (AddItem /\ ~IsBlank(newItem) /\ quantity >= 1) =>
            /\ Len(items') = Len(items) + 1
            /\ \A i \in 1..Len(items) : items'[i] = items[i]
            /\ LET new == items'[Len(items')]
               IN  /\ new.completed = FALSE
                   /\ new.name = Trim(newItem)
                   /\ ~IsBlank(<<Head(new.name)>>)
                   /\ ~IsBlank(<<new.name[Len(new.name)]>>)
                   /\ new.category = selectedCategory
                   /\ new.quantity = quantity
                   /\ new.unit = unit
                   /\ new.priority = selectedPriority
      ]_vars

C6_Witness ==
    /\ lastOp = "AddItem"
    /\ Len(items) = 2
    /\ items[1].category = "produce" /\ items[1].unit = "pc"
    /\ items[1].priority = "medium" /\ items[1].quantity = 1
    /\ items[2].category = "dairy" /\ items[2].unit = "kg"
    /\ items[2].priority = "high" /\ items[2].quantity = 2
    /\ items[2].name = <<"a">>
    /\ ~items[2].completed

\* C7: updateQuantity(id, n) changes nothing when n < 1; when n >= 1 it sets
\* the quantity of the item with that id to n, with every other field of it
\* and every item of another id as before; an id that no item has changes
\* nothing
C7_UpdateQuantityExact ==
    [][ \A id \in IdInputs, n \in NewQuantityInputs :
          UpdateQuantity(id, n) =>
            /\ n < 1 => items' = items
            /\ Len(items') = Len(items)
            /\ n >= 1 =>
                 \A i \in 1..Len(items) :
                    IF items[i].id = id
                    THEN items'[i].quantity = n /\ SameExcept(items[i], items'[i], "quantity")
                    ELSE items'[i] = items[i]
            /\ (\A i \in 1..Len(items) : items[i].id # id) => items' = items
      ]_vars

C7_Witness ==
    /\ lastOp = "UpdateQuantity:ignored"
    /\ Len(items) = 2
    /\ items[1].quantity < 1
    /\ items[2].quantity = 1

\* C8: clearCompleted leaves exactly the items that were not completed, as
\* they were and in their order, and clearing again changes nothing; the
\* updater does so on every collection the program reaches
C8_ClearCompletedKeepsRest ==
    [][ /\ ClearCompleted =>
              /\ IsSubSeqAt(items', items, Uncompleted(items))
              /\ ClearCompletedUpdate(items') = items'
        /\ IsSubSeqAt(ClearCompletedUpdate(items'), items', Uncompleted(items'))
        /\ ClearCompletedUpdate(ClearCompletedUpdate(items')) = ClearCompletedUpdate(items')
      ]_vars

C8_Witness ==
    /\ lastOp = "ClearCompleted"
    /\ Len(items) = 1
    /\ ~items[1].completed
    /\ Len(localStorage.modernGroceryList.elems) = 1

\* C9: toggleComplete(id) flips completed of the item with that id, leaves
\* its other fields, the items of another id and the order as they were,
\* changes nothing when no item has the id, and applied again gives back the
\* collection it started from
C9_ToggleFlipsAndReverts ==
    [][ \A id \in IdInputs :
          ToggleComplete(id) =>
            /\ Len(items') = Len(items)
            /\ \A i \in 1..Len(items) :
                  IF items[i].id = id
                  THEN /\ items'[i].completed = ~items[i].completed
                       /\ SameExcept(items[i], items'[i], "completed")
                  ELSE items'[i] = items[i]
            /\ (\A i \in 1..Len(items) : items[i].id # id) => items' = items
            /\ ToggleCompleteUpdate(items', id) = items
      ]_vars

C9_Witness ==
    /\ lastOp = "ToggleComplete"
    /\ Len(items) = 2
    /\ items[1].id # items[2].id
    /\ ~items[1].completed
    /\ items[2].completed

\* C10: an add with a blank name changes nothing, and every item of the
\* collection has a name that is not empty and neither starts nor ends with
\* whitespace
C10_BlankNameIgnored ==
    [][ /\ (AddItem /\ IsBlank(newItem)) =>
              /\ items' = items
              /\ localStorage' = localStorage
        /\ \A i \in 1..Len(items') :
              /\ items'[i].name # <<>>
              /\ Head(items'[i].name) \notin Whitespace
              /\ items'[i].name[Len(items'[i].name)] \notin Whitespace
      ]_vars

C10_Witness ==
    /\ lastOp = "AddItem:ignored"
    /\ newItem = <<" ">>
    /\ Len(items) = 1
    /\ items[1].name = <<"a">>

\* out is in, with some elements left out and the others in their order
IsSubSeqOf(out, in) ==
    \E f \in [1..Len(out) -> 1..Len(in)] :
        /\ \A k \in 1..Len(out) : out[k] = in[f[k]]
        /\ \A k \in 1..Len(out), l \in 1..Len(out) : k < l => f[k] < f[l]

CategoryIndex(c) == CHOOSE i \in 1..Len(CategoryIds) : CategoryIds[i] = c

\* C11: in category mode the groups come in the order of the category list,
\* none is empty, each holds items of its own category only, in the order
\* they have in the collection; in the other mode there is one group, without
\* a category, its items in the order they have in the collection
C11_GroupsInCategoryOrder ==
    IF viewMode = "category"
    THEN /\ \A k \in 1..Len(groupedItems) :
              LET g == groupedItems[k]
              IN  /\ g.items # <<>>
                  /\ \E i \in 1..Len(CategoryIds) : CategoryIds[i] = g.category
                  /\ \A j \in 1..Len(g.items) : g.items[j].category = g.category
                  /\ IsSubSeqOf(g.items, items)
         /\ \A k \in 1..Len(groupedItems), l \in 1..Len(groupedItems) :
              k < l => CategoryIndex(groupedItems[k].category)
                         < CategoryIndex(groupedItems[l].category)
    ELSE /\ Len(groupedItems) = 1
         /\ groupedItems[1].category = NoCategory
         /\ IsSubSeqOf(groupedItems[1].items, items)

C11_Witness ==
    /\ pc = "ready"
    /\ viewMode = "category"
    /\ Len(items) = 2
    /\ items[1].category = "dairy"
    /\ items[2].category = "produce"
    /\ Len(groupedItems) = 2
    /\ groupedItems[1].key = "produce"
    /\ groupedItems[2].key = "dairy"

\* c and d are the same character, or the two cases of one letter
SameLetter(c, d) ==
    \/ c = d
    \/ \E i \in 1..Len(UpperCase) : {c, d} = {UpperCase[i], LowerCase[i]}

\* t occurs in s, the case of letters aside
ContainsIgnoringCase(s, t) ==
    \E off \in 0..(Len(s) - Len(t)) :
        \A k \in 1..Len(t) : SameLetter(s[off + k], t[k])

PassesFilter(item) ==
    /\ ContainsIgnoringCase(item.name, searchTerm)
    /\ filterCategory = "all" \/ item.category = filterCategory

\* the items of all groups, group after group
RECURSIVE ItemsOfGroups(_)
ItemsOfGroups(groups) ==
    IF groups = <<>> THEN <<>>
    ELSE Head(groups).items \o ItemsOfGroups(Tail(groups))

C13_AggregatesOverWholeCollection ==
    LET done == Cardinality({i \in 1..Len(items) : items[i].completed})
    IN  /\ totalCount = Len(items)
        /\ completedCount = done
        /\ 0 <= completedCount /\ completedCount <= totalCount
        /\ completionPercentage.den > 0
        /\ IF Len(items) = 0
           THEN completionPercentage.num = 0
           ELSE completionPercentage.num * Len(items)
                  = 100 * done * completionPercentage.den
        /\ 0 <= completionPercentage.num
        /\ completionPercentage.num <= 100 * completionPercentage.den

C13_Witness ==
    /\ pc = "ready"
    /\ Len(items) = 2
    /\ items[1].completed /\ ~items[2].completed
    /\ searchTerm = <<"a">>
    /\ Len(filteredItems) = 1
    /\ ~filteredItems[1].completed
    /\ completedCount = 1
    /\ totalCount = 2
    /\ completionPercentage = [num |-> 100, den |-> 2]

====
